---- MODULE Spec2Model ----
(***************************************************************************)
(* State-machine model of the GSOC client: the websocket subscription of   *)
(* gsocSubscribe / InformationSignal.subscribe, the resource-id mining     *)
(* loop of InformationSignal.mineResourceId, InformationSignal.write and   *)
(* getLatestGsocData against a node that keeps the last SOC per address,   *)
(* and createPostageBatch.                                                 *)
(*                                                                         *)
(* Hashing, key derivation, the proximity test, payload serialization and  *)
(* the SOC layout live in ./utils, ./soc and ./contants, which are         *)
(* imported but not part of the sources at hand; they are modelled from    *)
(* the specification as deterministic functions on byte sequences (a       *)
(* 16-bit digest stands in for keccak256 / secp256k1).                     *)
(***************************************************************************)
EXTENDS Integers, Sequences, FiniteSets, TLC

(***************************************************************************)
(* Bounds of the model.                                                    *)
(***************************************************************************)
MaxSubs == 2
MaxFrames == 2
MaxClose == 3
MaxErrors == 2
MaxIter == 400
MaxWrites == 2
MaxReads == 1
MaxMineRuns == 2
MaxIncSteps == 2

(***************************************************************************)
(* Program constants.                                                      *)
(***************************************************************************)
AddrLen == 32
OwnerLen == 20
HexAddrLen == 64
ByteMax == 255
MaxDepth == 32
PollTimeout == 100000
PollStep == 3000

Subs == 1..MaxSubs

(***************************************************************************)
(* Byte strings.                                                           *)
(***************************************************************************)
ByteAt(s, i) == IF i <= Len(s) THEN s[i] ELSE 0

ZeroBytes(n) == [i \in 1..n |-> 0]

\* bytesToHex: two hex digits per byte, high nibble first
BytesToHex(b) == [i \in 1..(2 * Len(b)) |->
                    IF (i % 2) = 1 THEN b[(i + 1) \div 2] \div 16
                                 ELSE (b[i \div 2] % 16)]

\* hexToBytes: the inverse direction
HexToBytes(h) == [i \in 1..(Len(h) \div 2) |-> h[2 * i - 1] * 16 + h[2 * i]]

\* 16-bit digest of a byte string: the stand-in for the 256-bit hash
Digest16(s) == (Len(s) * 7 + ByteAt(s, 1) * 167 + ByteAt(s, 2) * 59
                + ByteAt(s, 3) * 241 + ByteAt(s, Len(s)) * 13 + 5) % 65536

\* the digest laid out as an n-byte value, most significant byte first
Spread(d, n) == [i \in 1..n |-> IF i = 1 THEN d \div 256
                                ELSE IF i = 2 THEN (d % 256) ELSE 0]

\* keccak256Hash(x): 32 bytes
Keccak256Hash(s) == Spread(Digest16(s), AddrLen)

(***************************************************************************)
(* Inputs.  A value crossing the API as `string | Uint8Array` is a record  *)
(* [kind, val]: kind "hex" carries hex digits (0..15), kind "text" the     *)
(* bytes of a non-hex string, kind "bytes" a Uint8Array.                   *)
(***************************************************************************)
IsHexString(x) == x.kind = "hex"

\* getConsensualPrivateKey(resource): a 64-digit hex string is taken as the
\* key without conversion, anything else is hashed
GetConsensualPrivateKey(resource) ==
    IF IsHexString(resource) /\ Len(resource.val) = HexAddrLen
    THEN HexToBytes(resource.val)
    ELSE Keccak256Hash(resource.val)

\* makeSigner(key).address: the 20-byte owner address of a private key
SignerAddress(key) ==
    Spread((ByteAt(key, 1) * 113 + ByteAt(key, 2) * 7919 + ByteAt(key, 3) * 31
            + ByteAt(key, 32) * 3 + 11) % 65536, OwnerLen)

\* makeSOCAddress(identifier, owner) = hash(identifier || owner)
MakeSOCAddress(identifier, owner) ==
    Spread((Digest16(identifier) * 3 + ByteAt(owner, 1) * 61 + ByteAt(owner, 2) * 149
            + ByteAt(owner, 1) * ByteAt(owner, 2) + 1) % 65536, AddrLen)

(***************************************************************************)
(* Proximity (spec 4.1): number of common leading bits, byte by byte, most *)
(* significant bit first.                                                  *)
(***************************************************************************)
RECURSIVE LeadingZeros8(_)
LeadingZeros8(x) == IF x = 0 THEN 8 ELSE IF x >= 128 THEN 0 ELSE 1 + LeadingZeros8(2 * x)

RECURSIVE Xor8(_, _, _)
Xor8(a, b, n) == IF n = 0 THEN 0
                 ELSE (((a % 2) + (b % 2)) % 2) + 2 * Xor8(a \div 2, b \div 2, n - 1)

RECURSIVE ProximityFrom(_, _, _)
ProximityFrom(a, b, i) ==
    IF i > Len(a) \/ i > Len(b) THEN 0
    ELSE IF a[i] = b[i] THEN 8 + ProximityFrom(a, b, i + 1)
    ELSE LeadingZeros8(Xor8(a[i], b[i], 8))

Proximity(a, b) == ProximityFrom(a, b, 1)

\* A depth argument is [kind, twice]: kind "number" with twice = 2 * depth
\* (so that 2.5 is representable), kind "nan", or kind "string" (not a number).
\* inProximity(a, b, depth) = proximity(a, b) >= depth, false for NaN.
InProximity(a, b, depth) ==
    /\ depth.kind = "number"
    /\ 2 * Proximity(a, b) >= depth.twice


(***************************************************************************)
(* State.                                                                  *)
(***************************************************************************)
VARIABLES
    consensusHash,  \* InformationSignal.consensusHash
    \* one entry per subscription (a gsocSubscribe closure and its socket)
    subState,       \* "none" | "open" | "threw": outcome of subscribe()
    subRid,         \* resourceId argument of subscribe()
    subAddr,        \* gsocAddress the subscription was opened on
    hasTerminate,   \* whether the socket object offers terminate() (node) or not (browser)
    closed,         \* the closure's `closed` flag
    closeCalls,     \* number of invocations of the returned close handle
    socketCalls,    \* disconnect calls made on the socket, in order
    frames,         \* inbound frames in arrival order: [type, body]
    fstate,         \* per frame: "decoding" | "resuming" | "queued" | "done" | "rejected"
    calls,          \* invocations inside / of the subscriber's handler, in order: [f, cb]
    errEvents,      \* transport error events so far
    errOpen,        \* those that occurred while `closed` was false
    afterClose,     \* the entries of `calls` made after the close handle was invoked
    micro,          \* pending microtasks, FIFO: <<s, f, "resume" | "handler">>
    \* InformationSignal.mineResourceId
    mPc,            \* "idle" | "loop" | "returned" | "threw"
    mTarget,        \* beeAddress argument
    mDepth,         \* storageDepth argument
    resourceId,     \* the loop's counter
    gsocAddress,    \* address of the last candidate
    mIter,          \* loop iterations so far (candidates derived and tested)
    \* InformationSignal.write
    wPc,            \* "idle" | "signing" | "uploading" | "returned" | "failed"
    wArgs,          \* [data, rid] of the call in progress
    wSteps,         \* what the call did so far, in order
    wErr,           \* the error the call failed with
    wCount,         \* calls made so far
    uploads,        \* upload requests sent to the node: [address, data, ...]
    wSoc,           \* what the last write call returned: NoSoc or the SOC's payload bytes
    wStatus,        \* HTTP status carried by the error the call failed with (0: none)
    store,          \* the node: chunk data of the last SOC accepted, per address
    \* InformationSignal.getLatestGsocData
    rPc,            \* "idle" | "downloading" | "returned" | "failed"
    rArgs,          \* [rid, after]: the resourceId argument, and the number of the
                    \* write call that had returned when the read was called (0: none)
    rReq,           \* address of the chunk requested
    rResult,        \* payload bytes returned
    rCount,         \* calls made so far
    \* results of the mining calls so far: [target, depth, resourceId, gsocAddress]
    mResults,
    \* the mining counter's increment step, applied to a given value
    cnt,            \* the counter
    cntPrev,        \* its value before the last step
    cntSteps,       \* steps applied
    \* createPostageBatch
    bPc,            \* "idle" | "creating" | "polling" | "waiting" | "returned" | "threw"
    bWait,          \* options.waitForUsable
    bBatchId,       \* response.data.batchID of the create request
    bTime,          \* the loop variable `time`
    bPolls,         \* getPostageBatch calls so far
    bUsable,        \* whether a poll reported the batch usable
    bPollsAfterUsable, \* polls made after a poll reported the batch usable
    bResult         \* the batch id returned

subVars == <<subState, subRid, subAddr, hasTerminate, closed, closeCalls,
             socketCalls, frames, fstate, calls, errEvents, errOpen, afterClose,
             micro>>
mineVars == <<mPc, mTarget, mDepth, resourceId, gsocAddress, mIter, mResults>>
writeVars == <<wPc, wArgs, wSteps, wErr, wCount, uploads, wSoc, wStatus, store>>
readVars == <<rPc, rArgs, rReq, rResult, rCount>>
incVars == <<cnt, cntPrev, cntSteps>>
batchVars == <<bPc, bWait, bBatchId, bTime, bPolls, bUsable, bPollsAfterUsable, bResult>>
otherVars == <<readVars, incVars, batchVars>>
vars == <<consensusHash, subVars, mineVars, writeVars, otherVars>>

(***************************************************************************)
(* Values.                                                                 *)
(***************************************************************************)
\* consensus ids the channel may be constructed with (strings, as bytes)
\* 'SimpleGraffiti:v1'
DefaultConsensusId ==
    <<83, 105, 109, 112, 108, 101, 71, 114, 97, 102, 102, 105, 116, 105, 58, 118, 49>>
ConsensusIds == {DefaultConsensusId, <<65, 84, 49>>}

\* the websocket data types prepareWebsocketData converts; "other" stands for any
\* type it rejects
Decodable == {"string", "Buffer", "ArrayBuffer", "Blob"}

\* frame contents: no bytes, bytes that are not JSON, JSON of a string, JSON of a number
Bodies == {"empty", "garbage", "str", "num"}

Fr(t, b) == [type |-> t, body |-> b]

\* the frames fed to a subscription: every body as text, the binary types with an
\* empty and a valid body, and one frame of an unsupported data type
Frames == {Fr("string", b) : b \in Bodies}
          \cup {Fr("Blob", "empty"), Fr("Blob", "str"), Fr("Buffer", "str"),
                Fr("ArrayBuffer", "empty"), Fr("other", "str")}

NoAddr == <<>>

\* resource ids: the default 'any', a 64-digit hex string, a Uint8Array
TextAny == [kind |-> "text", val |-> <<97, 110, 121>>]
HexRid == [kind |-> "hex", val |-> BytesToHex([i \in 1..AddrLen |-> IF i = 1 THEN 7 ELSE 0])]
BytesRid(b) == [kind |-> "bytes", val |-> b]
RidInputs == {TextAny, HexRid, BytesRid([i \in 1..AddrLen |-> IF i = 1 THEN 7 ELSE 0])}

\* the SOC address write, read and subscribe derive for a resource id
ChannelAddress(topic, rid) ==
    MakeSOCAddress(topic, SignerAddress(GetConsensualPrivateKey(rid)))


(***************************************************************************)
(* Subscription: gsocSubscribe and InformationSignal.subscribe.            *)
(***************************************************************************)
\* assertSubscriptionHandler on the insider handler: its onMessage is always a
\* function, its onError is the subscriber's own onError property
AssertSubscriptionHandler(onErrorIsFunction) == onErrorIsFunction

\* (mutation of CloseSocketCalls: the `closed` flag is not consulted)
CloseSocketCallsNoFlag(isClosed, canTerminate) ==
    <<IF canTerminate THEN "terminate" ELSE "close">>

\* the body of the close closure: the socket calls it makes, given the flag
CloseSocketCalls(isClosed, canTerminate) ==
    IF isClosed = FALSE
    THEN <<IF canTerminate THEN "terminate" ELSE "close">>
    ELSE <<>>

\* prepareWebsocketData: the byte length it resolves with, or -1 when it throws
BodyLen(body) == CASE body = "empty" -> 0
                   [] body = "garbage" -> 3
                   [] body = "str" -> 7
                   [] body = "num" -> 2

PrepareWebsocketData(frame) ==
    IF frame.type \in Decodable THEN BodyLen(frame.body) ELSE -1

\* data.json(): whether JSON.parse succeeds
JsonParses(body) == body \in {"str", "num"}

\* isInformationSignalRecord / assertInformationSignalRecord, the default validator
IsInformationSignalRecord(body) == body = "str"

\* (mutation of InsiderOnMessage: the subscriber is called before the validator)
InsiderOnMessageLateAssert(f, body, userThrows) ==
    IF ~JsonParses(body) THEN <<[f |-> f, cb |-> "onError"]>>
    ELSE IF ~IsInformationSignalRecord(body)
         THEN <<[f |-> f, cb |-> "onMessage"], [f |-> f, cb |-> "assert"],
                [f |-> f, cb |-> "onError"]>>
    ELSE <<[f |-> f, cb |-> "onMessage"], [f |-> f, cb |-> "assert"]>>

\* insiderHandler.onMessage for frame f: the validator run ("assert") and the
\* subscriber callbacks it invokes, in order
InsiderOnMessage(f, body, userThrows) ==
    IF ~JsonParses(body) THEN <<[f |-> f, cb |-> "onError"]>>
    ELSE IF ~IsInformationSignalRecord(body)
         THEN <<[f |-> f, cb |-> "assert"], [f |-> f, cb |-> "onError"]>>
    ELSE IF userThrows
         THEN <<[f |-> f, cb |-> "assert"], [f |-> f, cb |-> "onMessage"],
                [f |-> f, cb |-> "onError"]>>
    ELSE <<[f |-> f, cb |-> "assert"], [f |-> f, cb |-> "onMessage"]>>

\* (mutation of OnMessageCalls: empty frames are not ignored)
OnMessageCallsNoLengthCheck(f, frame, userThrows) ==
    InsiderOnMessage(f, frame.body, userThrows)

\* ws.onmessage after its await: what reaches the handler for a decoded frame
OnMessageCalls(f, frame, userThrows) ==
    IF PrepareWebsocketData(frame) > 0
    THEN InsiderOnMessage(f, frame.body, userThrows)
    ELSE <<>>

\* (mutation of OnErrorCalls: the `closed` flag is not consulted)
OnErrorCallsNoFlag(isClosed) == <<[f |-> 0, cb |-> "onError"]>>

\* ws.onerror: the handler calls it makes, given the flag
OnErrorCalls(isClosed) ==
    IF ~isClosed THEN <<[f |-> 0, cb |-> "onError"]>> ELSE <<>>

\* InformationSignal.subscribe(messageHandler, resourceId)
Subscribe(s, rid, onErrorIsFunction, canTerminate) ==
    /\ subState[s] = "none"
    /\ subRid' = [subRid EXCEPT ![s] = rid]
    /\ subAddr' = [subAddr EXCEPT ![s] = ChannelAddress(consensusHash, rid)]
    /\ IF AssertSubscriptionHandler(onErrorIsFunction)
          /\ Len(BytesToHex(ChannelAddress(consensusHash, rid))) = HexAddrLen
       THEN /\ subState' = [subState EXCEPT ![s] = "open"]
            /\ hasTerminate' = [hasTerminate EXCEPT ![s] = canTerminate]
       ELSE /\ subState' = [subState EXCEPT ![s] = "threw"]
            /\ UNCHANGED hasTerminate
    /\ UNCHANGED <<consensusHash, closed, closeCalls, socketCalls, frames,
                   fstate, calls, errEvents, errOpen, afterClose, micro, mineVars,
                   writeVars, otherVars>>

\* (mutation of ClosedAfterClose: one flag is shared by all subscriptions)
ClosedAfterCloseShared(flags, s) == [t \in DOMAIN flags |-> TRUE]

\* `closed = true` in the closure of subscription s
ClosedAfterClose(flags, s) == [flags EXCEPT ![s] = TRUE]

\* an invocation of the close handle
CloseHandle(s) ==
    /\ subState[s] = "open"
    /\ closeCalls[s] < MaxClose
    /\ closeCalls' = [closeCalls EXCEPT ![s] = @ + 1]
    /\ socketCalls' = [socketCalls EXCEPT
                         ![s] = @ \o CloseSocketCalls(closed[s], hasTerminate[s])]
    /\ closed' = ClosedAfterClose(closed, s)
    /\ UNCHANGED <<consensusHash, subState, subRid, subAddr, hasTerminate, frames,
                   fstate, calls, errEvents, errOpen, afterClose, micro, mineVars,
                   writeVars, otherVars>>

\* ws.onmessage up to its await: a Blob is read asynchronously, any other data
\* makes prepareWebsocketData return at once and the rest of the handler is
\* queued as a microtask.  The handler never reads the closed flag.
WsMessage(s, frame) ==
    /\ subState[s] = "open"
    /\ Len(frames[s]) < MaxFrames
    /\ frames' = [frames EXCEPT ![s] = Append(@, frame)]
    /\ IF frame.type = "Blob"
       THEN /\ fstate' = [fstate EXCEPT ![s] = Append(@, "decoding")]
            /\ UNCHANGED micro
       ELSE /\ fstate' = [fstate EXCEPT ![s] = Append(@, "queued")]
            /\ micro' = Append(micro, <<s, Len(frames[s]) + 1, "handler">>)
    /\ UNCHANGED <<consensusHash, subState, subRid, subAddr, hasTerminate, closed, closeCalls,
                   socketCalls, calls, errEvents, errOpen, afterClose, mineVars,
                   writeVars, otherVars>>

\* data.arrayBuffer() of a Blob frame resolves: the continuation of
\* prepareWebsocketData is queued, not yet the rest of ws.onmessage
BlobRead(s, f) ==
    /\ f \in 1..Len(frames[s])
    /\ fstate[s][f] = "decoding"
    /\ fstate' = [fstate EXCEPT ![s][f] = "resuming"]
    /\ micro' = Append(micro, <<s, f, "resume">>)
    /\ UNCHANGED <<consensusHash, subState, subRid, subAddr, hasTerminate, closed, closeCalls,
                   socketCalls, frames, calls, errEvents, errOpen, afterClose, mineVars,
                   writeVars, otherVars>>

\* the oldest microtask runs: either prepareWebsocketData resumes after the
\* Blob read and its return queues the rest of ws.onmessage behind whatever is
\* already waiting, or the rest of ws.onmessage runs for a frame
RunMicro(userThrows) ==
    /\ micro # <<>>
    /\ LET s == Head(micro)[1]
           f == Head(micro)[2]
           frame == frames[s][f]
       IN /\ IF Head(micro)[3] = "resume"
             THEN /\ fstate' = [fstate EXCEPT ![s][f] = "queued"]
                  /\ micro' = Append(Tail(micro), <<s, f, "handler">>)
                  /\ UNCHANGED <<calls, afterClose>>
             ELSE IF PrepareWebsocketData(frame) < 0
             THEN /\ fstate' = [fstate EXCEPT ![s][f] = "rejected"]
                  /\ micro' = Tail(micro)
                  /\ UNCHANGED <<calls, afterClose>>
             ELSE /\ fstate' = [fstate EXCEPT ![s][f] = "done"]
                  /\ micro' = Tail(micro)
                  /\ calls' = [calls EXCEPT
                                 ![s] = @ \o OnMessageCalls(f, frame, userThrows)]
                  /\ afterClose' = [afterClose EXCEPT
                        ![s] = IF closeCalls[s] >= 1
                               THEN @ \o OnMessageCalls(f, frame, userThrows)
                               ELSE @]
          \* the subscriber's onMessage is reached only by an accepted frame
          /\ userThrows => /\ Head(micro)[3] = "handler"
                           /\ PrepareWebsocketData(frame) > 0
                           /\ IsInformationSignalRecord(frame.body)
    /\ UNCHANGED <<consensusHash, subState, subRid, subAddr, hasTerminate, closed, closeCalls,
                   socketCalls, frames, errEvents, errOpen, mineVars,
                   writeVars, otherVars>>

\* ws.onerror
WsError(s) ==
    /\ subState[s] = "open"
    /\ errEvents[s] < MaxErrors
    /\ errEvents' = [errEvents EXCEPT ![s] = @ + 1]
    /\ errOpen' = [errOpen EXCEPT ![s] = IF closed[s] THEN @ ELSE @ + 1]
    /\ calls' = [calls EXCEPT ![s] = @ \o OnErrorCalls(closed[s])]
    /\ afterClose' = [afterClose EXCEPT
                        ![s] = IF closeCalls[s] >= 1 THEN @ \o OnErrorCalls(closed[s]) ELSE @]
    /\ UNCHANGED <<consensusHash, subState, subRid, subAddr, hasTerminate, closed, closeCalls,
                   socketCalls, frames, fstate, micro, mineVars, writeVars, otherVars>>


(***************************************************************************)
(* Mining: InformationSignal.mineResourceId.                               *)
(***************************************************************************)
Num(t) == [kind |-> "number", twice |-> t]
NaNDepth == [kind |-> "nan", twice |-> 0]
StrDepth == [kind |-> "string", twice |-> 0]

\* depths -1, 0, 2, 2.5, 4, 8, 10, 32, 32.5, 33, NaN and a non-number
DepthInputs == {Num(-2), Num(0), Num(4), Num(5), Num(8), Num(16), Num(20),
                Num(2 * MaxDepth), Num(2 * MaxDepth + 1), Num(2 * MaxDepth + 2),
                NaNDepth, StrDepth}

AddrBytes(n, b1, b2) == [i \in 1..n |-> IF i = 1 THEN b1 ELSE IF i = 2 THEN b2 ELSE 0]

\* bee addresses: Uint8Arrays of 32, 31 and 33 bytes, hex strings of 64 and 62 digits
TargetInputs ==
    {[kind |-> "bytes", val |-> AddrBytes(AddrLen, 165, 60)],
     [kind |-> "bytes", val |-> AddrBytes(AddrLen, 0, 0)],
     [kind |-> "bytes", val |-> AddrBytes(AddrLen - 1, 165, 60)],
     [kind |-> "bytes", val |-> AddrBytes(AddrLen + 1, 165, 60)],
     [kind |-> "hex", val |-> BytesToHex(AddrBytes(AddrLen, 90, 195))],
     [kind |-> "hex", val |-> BytesToHex(AddrBytes(AddrLen - 1, 90, 195))]}

\* the argument checks, in the order the code makes them: the error message, or "ok"
BeeAddressBytes(beeAddress) ==
    IF IsHexString(beeAddress) THEN HexToBytes(beeAddress.val) ELSE beeAddress.val

MineValidation(beeAddress, storageDepth) ==
    IF storageDepth.kind = "string" THEN "storageDepth argument must be a number"
    ELSE IF storageDepth.kind = "number" /\ storageDepth.twice > 2 * MaxDepth
         THEN "Storage depth cannot be greater than 32!"
    ELSE IF Len(BeeAddressBytes(beeAddress)) # AddrLen
         THEN "Bee address has to be 32 bytes!"
    ELSE "ok"

\* "increment resourceId array by one": the inner for loop, from index i
RECURSIVE IncrementFrom(_, _)
IncrementFrom(r, i) ==
    IF i > Len(r) THEN r
    ELSE IF r[i] = ByteMax THEN IncrementFrom([r EXCEPT ![i] = 0], i + 1)
    ELSE [r EXCEPT ![i] = r[i] + 1]

\* (mutation of Increment: the carry is dropped)
IncrementNoCarry(r) == [r EXCEPT ![1] = IF r[1] = ByteMax THEN 0 ELSE r[1] + 1]

Increment(r) == IncrementFrom(r, 1)

\* the address mining derives for a candidate: makeSigner(resourceId) directly
MineAddress(topic, rid) == MakeSOCAddress(topic, SignerAddress(rid))

\* (mutation of MineCandidate: the counter never advances)
MineCandidateStuck(rid) == rid

\* (mutation of MineCandidate: the counter advances twice per pass)
MineCandidateSkip(rid) == Increment(Increment(rid))

\* one pass of the do-while body: the candidate it derives and tests
MineCandidate(rid) == Increment(rid)

\* (mutation of MineContinues: the loop stops one bit short of the depth)
MineContinuesOneBitShort(beeAddress, address, storageDepth) ==
    ~InProximity(beeAddress, address, [storageDepth EXCEPT !.twice = @ - 2])

\* the loop condition
MineContinues(beeAddress, address, storageDepth) ==
    ~InProximity(beeAddress, address, storageDepth)

\* (mutation of MineStartCounter: the counter outlives the call that made it)
MineStartCounterShared(prev) == IF Len(prev) = AddrLen THEN prev ELSE ZeroBytes(AddrLen)

\* the counter a call starts from, whatever an earlier call left: new Uint8Array
MineStartCounter(prev) == ZeroBytes(AddrLen)

\* mineResourceId up to the loop
MineBegin(beeAddress, storageDepth) ==
    /\ mTarget' = BeeAddressBytes(beeAddress)
    /\ mDepth' = storageDepth
    /\ mPc' = IF MineValidation(beeAddress, storageDepth) = "ok" THEN "loop" ELSE "threw"
    /\ resourceId' = MineStartCounter(resourceId)
    /\ UNCHANGED <<consensusHash, subVars, gsocAddress, mResults, writeVars, otherVars>>

\* the first call
MineCall(beeAddress, storageDepth) ==
    /\ mPc = "idle"
    /\ MineBegin(beeAddress, storageDepth)
    /\ UNCHANGED mIter

\* a further call, after an earlier one has ended
MineAgain(beeAddress, storageDepth) ==
    /\ mPc \in {"returned", "threw"}
    /\ Len(mResults) < MaxMineRuns
    /\ MineBegin(beeAddress, storageDepth)
    /\ mIter' = 0

\* one pass of the do-while loop
MinePass ==
    /\ mPc = "loop"
    /\ resourceId' = MineCandidate(resourceId)
    /\ gsocAddress' = MineAddress(consensusHash, resourceId')
    /\ mPc' = IF MineContinues(mTarget, gsocAddress', mDepth) THEN "loop" ELSE "returned"
    /\ mResults' = IF mPc' = "loop" THEN mResults
                   ELSE Append(mResults, [target |-> mTarget, depth |-> mDepth,
                                          resourceId |-> resourceId',
                                          gsocAddress |-> gsocAddress'])
    /\ UNCHANGED <<consensusHash, subVars, mTarget, mDepth, writeVars, otherVars>>

\* one iteration of the do-while loop, of at most MaxIter
MineIter ==
    /\ mIter < MaxIter
    /\ MinePass
    /\ mIter' = mIter + 1

(***************************************************************************)
(* The increment step on its own, applied to a given counter value.        *)
(***************************************************************************)
\* counter values: bytes 0..2 drawn from {0, 1, 254, 255}, the others all 0 or
\* all 255
IncInputs ==
    {[i \in 1..AddrLen |-> IF i = 1 THEN b1 ELSE IF i = 2 THEN b2
                           ELSE IF i = 3 THEN b3 ELSE fill] :
        b1 \in {0, 1, 254, ByteMax}, b2 \in {0, 1, 254, ByteMax},
        b3 \in {0, 1, 254, ByteMax}, fill \in {0, ByteMax}}

IncStep ==
    /\ cntSteps < MaxIncSteps
    /\ cntPrev' = cnt
    /\ cnt' = Increment(cnt)
    /\ cntSteps' = cntSteps + 1
    /\ UNCHANGED <<consensusHash, subVars, mineVars, writeVars, readVars, batchVars>>

(***************************************************************************)
(* Writing: InformationSignal.write and uploadSingleOwnerChunkData.        *)
(***************************************************************************)
\* payloads: a string (accepted by the default validator) and a number
Payloads == {"str", "num"}

\* (mutation of WritePrefix: the validator's verdict is ignored)
WritePrefixNoValidation(data) == <<"validate", "derive", "makeChunk">>

\* write up to its first suspension: the steps it takes for a payload
WritePrefix(data) ==
    IF IsInformationSignalRecord(data)
    THEN <<"validate", "derive", "makeChunk">>
    ELSE <<"validate">>

\* string payloads written: "hello" and "hi"
Texts == {<<104, 101, 108, 108, 111>>, <<104, 105>>}

\* serializePayload(data): the bytes of the JSON text of the payload (the number
\* written is 42)
SerializePayload(data, text) ==
    IF data = "str" THEN <<34>> \o text \o <<34>> ELSE <<52, 50>>

\* Data.json() on payload bytes: the value parsed
ParsePayload(bytes) ==
    IF Len(bytes) >= 2 /\ bytes[1] = 34 /\ bytes[Len(bytes)] = 34
    THEN [kind |-> "str", text |-> SubSeq(bytes, 2, Len(bytes) - 1)]
    ELSE IF bytes = <<52, 50>> THEN [kind |-> "num", text |-> <<>>]
    ELSE [kind |-> "invalid", text |-> <<>>]

\* sizes of the SOC fields and the payload window (./contants)
SignatureSize == 65
SpanSize == 8
MinPayloadSize == 1
MaxPayloadSize == 4096
SocPayloadOffset == AddrLen + SignatureSize + SpanSize

\* soc.span(): the payload length, little-endian
Span(n) == [i \in 1..SpanSize |-> IF i = 1 THEN (n % 256)
                                  ELSE IF i = 2 THEN ((n \div 256) % 256) ELSE 0]

\* serializeBytes(a, b): concatenation
SerializeBytes(a, b) == a \o b

\* signer.sign(hash(identifier || digest of the chunk)): 65 bytes
Sign(key, identifier, payload) ==
    Spread((Digest16(identifier) * 5 + Digest16(payload) * 3 + ByteAt(key, 1) * 17
            + ByteAt(key, 2) + 2) % 65536, SignatureSize)

\* the node: the chunk data it keeps for an uploaded SOC, and serves on download
SocChunkData(identifier, signature, body) == identifier \o signature \o body

\* the node keeps the last SOC uploaded per address
StorePut(st, address, chunk) ==
    [x \in (DOMAIN st) \cup {address} |-> IF x = address THEN chunk ELSE st[x]]

\* flexBytesAtOffset(data, offset, min, max): the bytes from the offset on, <<>>
\* standing for the error thrown when their number is outside the window
FlexBytesAtOffset(data, offset, min, max) ==
    IF Len(data) - offset >= min /\ Len(data) - offset <= max
    THEN SubSeq(data, offset + 1, Len(data))
    ELSE <<>>

\* a write call that returned no SOC
NoSoc == <<>>

\* the owner write signs with for a resource id
WriteOwner(rid) == SignerAddress(GetConsensualPrivateKey(rid))

WriteCall(data, rid) ==
    /\ wPc \in {"idle", "returned", "failed"}
    /\ wCount < MaxWrites
    /\ wCount' = wCount + 1
    /\ \E text \in (IF data = "str" THEN Texts ELSE {<<>>}) :
           wArgs' = [data |-> data, rid |-> rid, text |-> text]
    /\ wSteps' = WritePrefix(data)
    /\ IF "makeChunk" \in {WritePrefix(data)[i] : i \in 1..Len(WritePrefix(data))}
       THEN wPc' = "signing" /\ wErr' = "none"
       ELSE wPc' = "failed" /\ wErr' = "Value is not a valid Graffiti Feed Record"
    /\ wSoc' = NoSoc
    /\ wStatus' = 0
    /\ UNCHANGED <<consensusHash, subVars, mineVars, uploads, store, otherVars>>

\* makeSingleOwnerChunk resolves; uploadSoc sends the request
WriteSigned ==
    /\ wPc = "signing"
    /\ wSteps' = wSteps \o <<"sign", "upload">>
    /\ LET payload == SerializePayload(wArgs.data, wArgs.text)
           owner == WriteOwner(wArgs.rid)
       IN uploads' = Append(uploads,
              [owner |-> owner,
               identifier |-> consensusHash,
               signature |-> Sign(GetConsensualPrivateKey(wArgs.rid), consensusHash, payload),
               body |-> SerializeBytes(Span(Len(payload)), payload),
               \* the address the node files soc/{owner}/{identifier} under
               address |-> MakeSOCAddress(consensusHash, owner),
               rid |-> wArgs.rid,
               data |-> wArgs.data])
    /\ wPc' = "uploading"
    /\ UNCHANGED <<consensusHash, subVars, mineVars, wArgs, wErr, wCount, wSoc, wStatus,
                   store, otherVars>>

\* answers to a request: the node's response with its HTTP status, a request
\* that got no response, and a failure that is not an AxiosError
Responses == {[kind |-> "ok", status |-> 201], [kind |-> "http", status |-> 402],
              [kind |-> "http", status |-> 500], [kind |-> "network", status |-> 0],
              [kind |-> "other", status |-> 0]}

\* http(): the error it throws for a failed request, with the response status
HttpError(resp) ==
    IF resp.kind = "other" THEN [name |-> "Error", status |-> 0]
    ELSE [name |-> "BeeResponseError", status |-> resp.status]

\* (mutation of WriteOutcome: the upload is not awaited before the SOC is returned)
WriteOutcomeNoAwait(resp, payload) ==
    [pc |-> "returned", err |-> "none", status |-> 0, soc |-> payload]

\* uploadSingleOwnerChunkData after `await uploadSoc`: how the write call ends
WriteOutcome(resp, payload) ==
    IF resp.kind = "ok"
    THEN [pc |-> "returned", err |-> "none", status |-> 0, soc |-> payload]
    ELSE [pc |-> "failed", err |-> HttpError(resp).name,
          status |-> HttpError(resp).status, soc |-> NoSoc]

\* the upload request is answered; the node has stored the chunk if it accepted
\* the request, and may have if its response was lost
WriteUploaded(resp, stored) ==
    /\ wPc = "uploading"
    /\ stored = TRUE => resp.kind \in {"ok", "network"}
    /\ resp.kind = "ok" => stored = TRUE
    /\ LET up == uploads[Len(uploads)]
           out == WriteOutcome(resp, SerializePayload(wArgs.data, wArgs.text))
       IN /\ wPc' = out.pc
          /\ wErr' = out.err
          /\ wStatus' = out.status
          /\ wSoc' = out.soc
          /\ store' = IF stored
                      THEN StorePut(store, up.address,
                                    SocChunkData(up.identifier, up.signature, up.body))
                      ELSE store
    /\ UNCHANGED <<consensusHash, subVars, mineVars, wArgs, wSteps, wCount, uploads,
                   otherVars>>

(***************************************************************************)
(* Reading: InformationSignal.getLatestGsocData and                        *)
(* downloadSingleOwnerChunkData.                                           *)
(***************************************************************************)
\* (mutation of ReadAddress: the resource id is used as the key without derivation)
ReadAddressRawKey(topic, rid) == MakeSOCAddress(topic, SignerAddress(rid.val))

\* the address of the chunk read requests for a resource id
ReadAddress(topic, rid) ==
    MakeSOCAddress(topic, SignerAddress(GetConsensualPrivateKey(rid)))

\* getLatestGsocData up to the download request
ReadCall(rid) ==
    /\ rPc \in {"idle", "returned", "failed"}
    /\ rCount < MaxReads
    /\ rCount' = rCount + 1
    /\ rArgs' = [rid |-> rid, after |-> IF wPc = "returned" THEN wCount ELSE 0]
    /\ rReq' = ReadAddress(consensusHash, rid)
    /\ rResult' = <<>>
    /\ rPc' = "downloading"
    /\ UNCHANGED <<consensusHash, subVars, mineVars, writeVars, incVars, batchVars>>

\* the download request is answered: with the chunk if the node has it and the
\* request goes through, with an error otherwise
ReadDone(resp) ==
    /\ rPc = "downloading"
    /\ IF resp.kind = "ok" /\ rReq \in DOMAIN store
       THEN LET payload == FlexBytesAtOffset(store[rReq], SocPayloadOffset,
                                             MinPayloadSize, MaxPayloadSize)
            IN /\ rResult' = payload
               /\ rPc' = IF payload = <<>> THEN "failed" ELSE "returned"
       ELSE /\ rResult' = <<>>
            /\ rPc' = "failed"
    /\ UNCHANGED <<consensusHash, subVars, mineVars, writeVars, rArgs, rReq, rCount,
                   incVars, batchVars>>

(***************************************************************************)
(* Postage batches: createPostageBatch.                                    *)
(***************************************************************************)
\* batch ids the node may answer the create request with
BatchIds == {1, 2}

\* what a getPostageBatch call yields: a batch that is usable, one that is not,
\* or an error thrown
PollOutcomes == {"usable", "unusable", "failed"}

\* the for loop's condition
BatchLoopContinues(time) == time < PollTimeout

\* (mutation of BatchStops: a usable batch does not end the loop)
BatchStopsNever(outcome) == FALSE

\* `if (batch.usable) break`; an error thrown by the poll is caught and ignored
BatchStops(outcome) == outcome = "usable"

\* createPostageBatch sends the create request
BatchCall(waitForUsable) ==
    /\ bPc = "idle"
    /\ bWait' = waitForUsable
    /\ bPc' = "creating"
    /\ UNCHANGED <<consensusHash, subVars, mineVars, writeVars, readVars, incVars,
                   bBatchId, bTime, bPolls, bUsable, bPollsAfterUsable, bResult>>

\* the create request is answered; with waitForUsable the loop is entered
BatchCreated(resp, id) ==
    /\ bPc = "creating"
    /\ IF resp.kind # "ok"
       THEN /\ bPc' = "threw"
            /\ UNCHANGED <<bBatchId, bTime, bResult>>
       ELSE /\ bBatchId' = id
            /\ bTime' = 0
            /\ IF bWait /\ BatchLoopContinues(0)
               THEN bPc' = "polling" /\ UNCHANGED bResult
               ELSE bPc' = "returned" /\ bResult' = id
    /\ UNCHANGED <<consensusHash, subVars, mineVars, writeVars, readVars, incVars,
                   bWait, bPolls, bUsable, bPollsAfterUsable>>

\* a getPostageBatch call of the loop ends
BatchPolled(outcome) ==
    /\ bPc = "polling"
    /\ bPolls' = bPolls + 1
    /\ bPollsAfterUsable' = IF bUsable THEN bPollsAfterUsable + 1 ELSE bPollsAfterUsable
    /\ bUsable' = (bUsable \/ outcome = "usable")
    /\ IF BatchStops(outcome)
       THEN bPc' = "returned" /\ bResult' = bBatchId
       ELSE bPc' = "waiting" /\ UNCHANGED bResult
    /\ UNCHANGED <<consensusHash, subVars, mineVars, writeVars, readVars, incVars,
                   bWait, bBatchId, bTime>>

\* the 3 s timer fires: `time += 3_000` and the loop's condition
BatchWaited ==
    /\ bPc = "waiting"
    /\ bTime' = bTime + PollStep
    /\ IF BatchLoopContinues(bTime')
       THEN bPc' = "polling" /\ UNCHANGED bResult
       ELSE bPc' = "returned" /\ bResult' = bBatchId
    /\ UNCHANGED <<consensusHash, subVars, mineVars, writeVars, readVars, incVars,
                   bWait, bBatchId, bPolls, bUsable, bPollsAfterUsable>>

(***************************************************************************)
(* Specifications.                                                         *)
(***************************************************************************)
InitCalls ==
    /\ consensusHash \in {Keccak256Hash(id) : id \in ConsensusIds}
    /\ subState = [s \in Subs |-> "none"]
    /\ subRid = [s \in Subs |-> TextAny]
    /\ subAddr = [s \in Subs |-> NoAddr]
    /\ hasTerminate = [s \in Subs |-> FALSE]
    /\ closed = [s \in Subs |-> FALSE]
    /\ closeCalls = [s \in Subs |-> 0]
    /\ socketCalls = [s \in Subs |-> <<>>]
    /\ frames = [s \in Subs |-> <<>>]
    /\ fstate = [s \in Subs |-> <<>>]
    /\ calls = [s \in Subs |-> <<>>]
    /\ errEvents = [s \in Subs |-> 0]
    /\ errOpen = [s \in Subs |-> 0]
    /\ afterClose = [s \in Subs |-> <<>>]
    /\ micro = <<>>
    /\ mPc = "idle"
    /\ mTarget = NoAddr
    /\ mDepth = Num(0)
    /\ resourceId = ZeroBytes(AddrLen)
    /\ gsocAddress = NoAddr
    /\ mIter = 0
    /\ wPc = "idle"
    /\ wArgs = [data |-> "str", rid |-> TextAny, text |-> <<>>]
    /\ wSteps = <<>>
    /\ wErr = "none"
    /\ wCount = 0
    /\ uploads = <<>>
    /\ wSoc = NoSoc
    /\ wStatus = 0
    /\ store = [x \in {} |-> <<>>]
    /\ rPc = "idle"
    /\ rArgs = [rid |-> TextAny, after |-> 0]
    /\ rReq = NoAddr
    /\ rResult = <<>>
    /\ rCount = 0
    /\ mResults = <<>>
    /\ bPc = "idle"
    /\ bWait = FALSE
    /\ bBatchId = 0
    /\ bTime = 0
    /\ bPolls = 0
    /\ bUsable = FALSE
    /\ bPollsAfterUsable = 0
    /\ bResult = 0

Init ==
    /\ InitCalls
    /\ cnt = ZeroBytes(AddrLen)
    /\ cntPrev = ZeroBytes(AddrLen)
    /\ cntSteps = 0

\* one subscription, its frames, errors and close handle
NextSub ==
    \/ \E h \in BOOLEAN, t \in BOOLEAN : Subscribe(1, TextAny, h, t)
    \/ CloseHandle(1)
    \/ \E frame \in Frames : WsMessage(1, frame)
    \/ \E f \in 1..MaxFrames : BlobRead(1, f)
    \/ \E userThrows \in BOOLEAN : RunMicro(userThrows)
    \/ WsError(1)

InitSub == Init /\ consensusHash = Keccak256Hash(DefaultConsensusId)

SpecSub == InitSub /\ [][NextSub]_vars

\* several subscriptions side by side, on the same or on different resource
\* ids, each with its close handle, one frame and one transport error
NextSub2 ==
    \E s \in Subs :
        \/ \E rid \in {TextAny, HexRid} : Subscribe(s, rid, TRUE, TRUE)
        \/ closeCalls[s] = 0 /\ CloseHandle(s)
        \/ frames[s] = <<>> /\ WsMessage(s, Fr("string", "str"))
        \/ RunMicro(FALSE)
        \/ errEvents[s] = 0 /\ WsError(s)

SpecSub2 == InitSub /\ [][NextSub2]_vars

\* a mining call, and a subscription opened with the mined resource id
NextMine ==
    \/ \E t \in TargetInputs, d \in DepthInputs : MineCall(t, d)
    \/ MineIter
    \/ /\ mPc = "returned"
       /\ \E rid \in {BytesRid(resourceId), [kind |-> "hex", val |-> BytesToHex(resourceId)]} :
              Subscribe(1, rid, TRUE, TRUE)

SpecMine == Init /\ [][NextMine]_vars

\* mining calls one after the other
Mine2Targets == {[kind |-> "bytes", val |-> AddrBytes(AddrLen, 165, 60)],
                 [kind |-> "bytes", val |-> AddrBytes(AddrLen, 0, 0)]}

Mine2Depths == {Num(0), Num(8), Num(16)}

NextMine2 ==
    \/ \E t \in Mine2Targets, d \in Mine2Depths : MineCall(t, d)
    \/ MineIter
    \/ \E t \in Mine2Targets, d \in Mine2Depths : MineAgain(t, d)

SpecMine2 == Init /\ [][NextMine2]_vars

\* targets and depths of a mining call left to run: the address of the id 1,
\* two addresses away from it, and one that shares at most 23 leading bits with
\* any address derived; depths 0, 8, 16 and 24
MineLiveTargets ==
    {MineAddress(Keccak256Hash(DefaultConsensusId), [i \in 1..AddrLen |-> IF i = 1 THEN 1 ELSE 0]),
     AddrBytes(AddrLen, 90, 195), AddrBytes(AddrLen, 17, 25),
     [i \in 1..AddrLen |-> IF i = 3 THEN 1 ELSE 0]}

MineLiveDepths == {Num(0), Num(16), Num(32), Num(48)}

\* a mining call left to run
NextMineLive ==
    \/ \E t \in MineLiveTargets, d \in MineLiveDepths : MineCall(BytesRid(t), d)
    \/ MineIter

SpecMineLive == InitSub /\ [][NextMineLive]_vars /\ WF_vars(MineIter)

\* the create request settles, with an answer or an error
BatchCreateSettles == \E resp \in Responses, id \in BatchIds : BatchCreated(resp, id)

\* a poll request settles, with an answer or an error
BatchPollSettles == \E outcome \in PollOutcomes : BatchPolled(outcome)

\* a createPostageBatch call.  The 3 s timer of the loop fires once it is set;
\* the requests carry no timeout of the code's own, so nothing makes them settle.
NextBatch ==
    \/ \E w \in BOOLEAN : BatchCall(w)
    \/ BatchCreateSettles
    \/ BatchPollSettles
    \/ BatchWaited

SpecBatch == InitSub /\ [][NextBatch]_vars /\ WF_vars(BatchWaited)

\* the increment step applied to counter values
InitInc ==
    /\ InitCalls
    /\ consensusHash = Keccak256Hash(DefaultConsensusId)
    /\ cnt \in IncInputs
    /\ cntPrev = cnt
    /\ cntSteps = 0

SpecInc == InitInc /\ [][IncStep]_vars

\* write calls
NextWrite ==
    \/ \E data \in Payloads, rid \in RidInputs : WriteCall(data, rid)
    \/ WriteSigned
    \/ \E resp \in Responses, stored \in BOOLEAN : WriteUploaded(resp, stored)

SpecWrite == Init /\ [][NextWrite]_vars

\* writes of payloads the validator accepts, read calls and a subscription, on
\* one channel
NextRW ==
    \/ \E rid \in RidInputs : WriteCall("str", rid)
    \/ WriteSigned
    \/ \E resp \in {r \in Responses : r.kind \in {"ok", "network"}}, stored \in BOOLEAN :
           WriteUploaded(resp, stored)
    \/ \E rid \in RidInputs : ReadCall(rid)
    \/ \E resp \in Responses : ReadDone(resp)
    \/ \E rid \in RidInputs : Subscribe(1, rid, TRUE, TRUE)

SpecRW == InitSub /\ [][NextRW]_vars


(***************************************************************************)
(* Properties.                                                             *)
(***************************************************************************)
\* the entries of a subscription's handler log that belong to frame f
CallsOf(s, f) == SelectSeq(calls[s], LAMBDA e : e.f = f)

Has(seq, x) == \E i \in 1..Len(seq) : seq[i] = x

Handled(s, f) == fstate[s][f] \in {"done", "rejected"}

\* C1: however often the close handle is invoked, and however frames and
\* transport errors interleave with it, the socket is disconnected at most once,
\* exactly once after the first invocation, by terminate() where the socket has
\* it and by close() otherwise.
C1_CloseDisconnectsOnce ==
    \A s \in Subs :
        /\ Len(socketCalls[s]) <= 1
        /\ closeCalls[s] >= 1 =>
              socketCalls[s] = <<IF hasTerminate[s] THEN "terminate" ELSE "close">>
        /\ closeCalls[s] = 0 => socketCalls[s] = <<>>

C1_Witness ==
    /\ closeCalls[1] = 3
    /\ Len(socketCalls[1]) = 1
    /\ Len(frames[1]) >= 1
    /\ errEvents[1] >= 1

\* C2 (as claimed): every frame that cannot be decoded, parsed or validated, and
\* every transport error while the subscription is open, reaches onError.
FrameFails(frame) ==
    \/ frame.type \notin Decodable
    \/ frame.body \in {"garbage", "num"}

C2_FailuresReachOnError ==
    \A s \in Subs :
        /\ \A f \in 1..Len(frames[s]) :
              (Handled(s, f) /\ FrameFails(frames[s][f]))
                  => Has(calls[s], [f |-> f, cb |-> "onError"])
        /\ Len(CallsOf(s, 0)) = errOpen[s]

\* C3 (as claimed): the handler callbacks of a subscription follow the arrival
\* order of the frames they belong to.
C3_CallbacksInArrivalOrder ==
    \A s \in Subs : \A i, j \in 1..Len(calls[s]) :
        (i < j /\ calls[s][i].f > 0 /\ calls[s][j].f > 0)
            => calls[s][i].f <= calls[s][j].f

\* C7: a frame of zero bytes causes no callback at all, and handling it leaves
\* the subscription open.
C7_EmptyFrameNoCallback ==
    \A s \in Subs : \A f \in 1..Len(frames[s]) :
        frames[s][f].body = "empty" =>
            /\ CallsOf(s, f) = <<>>
            /\ (fstate[s][f] = "done" /\ closeCalls[s] = 0) =>
                  (subState[s] = "open" /\ ~closed[s] /\ socketCalls[s] = <<>>)

C7_Witness ==
    /\ Len(frames[1]) = 2
    /\ frames[1][1].body = "empty"
    /\ fstate[1][1] = "done"
    /\ Has(calls[1], [f |-> 2, cb |-> "onMessage"])

\* C8: a non-empty frame that is not JSON, or whose JSON the validator rejects,
\* gets onError and never onMessage; and no onMessage happens before the
\* validator has run on that frame.
C8_RejectedFrameGetsOnError ==
    \A s \in Subs :
        /\ \A f \in 1..Len(frames[s]) :
              (fstate[s][f] = "done" /\ frames[s][f].body \in {"garbage", "num"}) =>
                  /\ Has(calls[s], [f |-> f, cb |-> "onError"])
                  /\ ~Has(calls[s], [f |-> f, cb |-> "onMessage"])
        /\ \A i \in 1..Len(calls[s]) :
              calls[s][i].cb = "onMessage" =>
                  \E j \in 1..(i - 1) : calls[s][j] = [f |-> calls[s][i].f, cb |-> "assert"]

C8_Witness ==
    /\ Len(frames[1]) = 2
    /\ frames[1][1].body = "num"
    /\ frames[1][2].body = "garbage"
    /\ fstate[1][1] = "done"
    /\ fstate[1][2] = "done"

\* C4: what mine returns is the address of the returned resource id under the
\* channel's consensus hash, and it shares at least `depth` leading bits with
\* the target.
C4_MinedAddressInNeighborhood ==
    mPc = "returned" =>
        /\ gsocAddress = MakeSOCAddress(consensusHash, SignerAddress(resourceId))
        /\ mDepth.kind = "number"
        /\ 2 * Proximity(gsocAddress, mTarget) >= mDepth.twice

C4_Witness ==
    /\ mPc = "returned"
    /\ mDepth = Num(16)
    /\ mIter > 2

\* the counter as a number and back (byte 0 least significant); the candidates
\* within MaxIter steps of zero fit the three low bytes
IdValue(r) == r[1] + 256 * r[2] + 65536 * r[3]
IdOfInt(n) == [i \in 1..AddrLen |->
                 IF i = 1 THEN n % 256
                 ELSE IF i = 2 THEN (n \div 256) % 256
                 ELSE IF i = 3 THEN (n \div 65536) % 256 ELSE 0]

InNeighborhoodOfId(n) ==
    InProximity(mTarget, MineAddress(consensusHash, IdOfInt(n)), mDepth)

\* C5 (as claimed): the returned resource id is the first one, counting from the
\* all-zero id, whose address is in the neighborhood.
C5_FirstFromZero ==
    mPc = "returned" =>
        \A k \in 0..(IdValue(resourceId) - 1) : ~InNeighborhoodOfId(k)

\* C5 (amended): the search increments before it tests, so it starts at the id
\* after all-zero: the returned id is the first one from 1 on whose address is in
\* the neighborhood, and with depth 0 it is 1.
C5_FirstFromOne ==
    mPc = "returned" =>
        /\ IdValue(resourceId) >= 1
        /\ resourceId = IdOfInt(IdValue(resourceId))
        /\ \A k \in 1..(IdValue(resourceId) - 1) : ~InNeighborhoodOfId(k)
        /\ mDepth = Num(0) => resourceId = IdOfInt(1)

C5_Witness ==
    /\ mPc = "returned"
    /\ IdValue(resourceId) > ByteMax + 1

\* the arguments mine is documented to accept: a 32-byte target and an integer
\* depth in [0, 32]
ValidMineArgs ==
    /\ Len(mTarget) = AddrLen
    /\ mDepth.kind = "number"
    /\ mDepth.twice % 2 = 0
    /\ mDepth.twice >= 0
    /\ mDepth.twice <= 2 * MaxDepth

\* C6 (as claimed): a subscription opened with the mined resource id listens on
\* the address mine returned.
C6_MinedIdUsable ==
    \A s \in Subs :
        (/\ mPc = "returned"
         /\ ValidMineArgs
         /\ subState[s] = "open"
         /\ subRid[s] = BytesRid(resourceId))
            => subAddr[s] = gsocAddress

\* C9 (as claimed): mine throws, before testing any candidate, exactly when the
\* target is not 32 bytes or the depth is not an integer in [0, 32].
C9_InvalidArgsThrow ==
    mPc # "idle" =>
        /\ (mPc = "threw") <=> ~ValidMineArgs
        /\ mPc = "threw" => mIter = 0

\* C10: a payload the validator rejects makes write fail with the validator's
\* error after the validation step alone, and no rejected payload is ever
\* uploaded.
C10_RejectedPayloadNotUploaded ==
    /\ \A i \in 1..Len(uploads) : uploads[i].data = "str"
    /\ (wCount > 0 /\ wArgs.data = "num") =>
          /\ wPc = "failed"
          /\ wErr = "Value is not a valid Graffiti Feed Record"
          /\ wSteps = <<"validate">>

C10_Witness ==
    /\ wCount = 2
    /\ wArgs.data = "num"
    /\ wPc = "failed"
    /\ Len(uploads) = 1

\* the read call in progress follows the last write call, which returned, and
\* names the same resource id
ReadFollowsWrite ==
    /\ rPc = "returned"
    /\ wPc = "returned"
    /\ rArgs.after = wCount
    /\ rArgs.rid = wArgs.rid

\* C11: a read that follows a successful write of the same resource id requests
\* exactly the address the write uploaded to and returns the written payload;
\* write, read and subscribe with one resource id target one SOC address.
C11_WriteReadRoundTrip ==
    /\ ReadFollowsWrite =>
          /\ rReq = uploads[Len(uploads)].address
          /\ ParsePayload(rResult) = [kind |-> "str", text |-> wArgs.text]
    /\ \A i \in 1..Len(uploads) :
          /\ (rPc # "idle" /\ uploads[i].rid = rArgs.rid) => uploads[i].address = rReq
          /\ (subState[1] = "open" /\ uploads[i].rid = subRid[1]) =>
                uploads[i].address = subAddr[1]
    /\ (subState[1] = "open" /\ rPc # "idle" /\ subRid[1] = rArgs.rid) => subAddr[1] = rReq

\* a second write to the address has replaced the first payload and is read back
\* while a subscription is open on the same resource id
C11_Witness ==
    /\ ReadFollowsWrite
    /\ Len(uploads) = 2
    /\ uploads[1].rid = uploads[2].rid
    /\ uploads[1].body # uploads[2].body
    /\ subState[1] = "open"
    /\ subRid[1] = rArgs.rid

\* C13: a write call returns a SOC only when its upload request was answered
\* with success; a failed upload fails the call with the transport error, which
\* carries the HTTP status of the response where there was one, and no SOC.
C13_SocOnlyAfterAcknowledgedUpload ==
    /\ wSoc # NoSoc =>
          /\ wPc = "returned"
          /\ Has(wSteps, "upload")
          /\ uploads[Len(uploads)].address \in DOMAIN store
          /\ store[uploads[Len(uploads)].address] =
                SocChunkData(uploads[Len(uploads)].identifier,
                             uploads[Len(uploads)].signature,
                             uploads[Len(uploads)].body)
    /\ wPc = "returned" => wSoc # NoSoc /\ wErr = "none"
    /\ (wPc = "failed" /\ Has(wSteps, "upload")) =>
          /\ wSoc = NoSoc
          /\ wErr \in {"BeeResponseError", "Error"}
          /\ wStatus \in {0, 402, 500}
    /\ wStatus # 0 => wPc = "failed" /\ wErr = "BeeResponseError"

\* an upload was refused with an HTTP status and the call failed with it
C13_Witness ==
    /\ wPc = "failed"
    /\ Has(wSteps, "upload")
    /\ wErr = "BeeResponseError"
    /\ wStatus = 402
    /\ wSoc = NoSoc

\* C12: two mining calls on one channel with the same target and depth return
\* the same resourceId and address, whatever calls were made before them.
C12_MiningDeterministic ==
    \A i \in 1..Len(mResults), j \in 1..Len(mResults) :
        (mResults[i].target = mResults[j].target /\ mResults[i].depth = mResults[j].depth)
            => /\ mResults[i].resourceId = mResults[j].resourceId
               /\ mResults[i].gsocAddress = mResults[j].gsocAddress

\* two calls with the same arguments have returned, after more than one pass
C12_Witness ==
    /\ Len(mResults) = 2
    /\ mResults[1].target = mResults[2].target
    /\ mResults[1].depth = mResults[2].depth
    /\ IdValue(mResults[2].resourceId) > 1

\* the lowest index whose byte is below 255, Len + 1 if there is none
FirstBelowMax(r) ==
    IF \E i \in 1..Len(r) : r[i] # ByteMax
    THEN CHOOSE i \in 1..Len(r) : r[i] # ByteMax /\ \A j \in 1..(i - 1) : r[j] = ByteMax
    ELSE Len(r) + 1

\* C14: the increment step adds one to the counter read with byte 0 least
\* significant: the bytes equal to 255 below the first byte under 255 become 0,
\* that byte is incremented, the higher bytes are unchanged, and the all-0xFF
\* value becomes all-zero.
C14_IncrementIsSuccessor ==
    cntSteps > 0 =>
        /\ Len(cnt) = Len(cntPrev)
        /\ \A i \in 1..Len(cnt) :
              cnt[i] = IF i < FirstBelowMax(cntPrev) THEN 0
                       ELSE IF i = FirstBelowMax(cntPrev) THEN cntPrev[i] + 1
                       ELSE cntPrev[i]
        /\ IdValue(cnt) = (IdValue(cntPrev) + 1) % 16777216

\* the all-0xFF value was stepped to all-zero
C14_Witness ==
    /\ cntSteps > 0
    /\ \A i \in 1..AddrLen : cntPrev[i] = ByteMax /\ cnt[i] = 0

\* C15: a mining call with valid arguments never raises; it returns only an id
\* whose address is in the neighbourhood, so it never returns when no id has one;
\* pass k tests the id of value k, so no id is tested twice, and the call
\* returns eventually if one of the ids the passes reach has such an address.
C15_MineReturnsOrRunsForever ==
    /\ [][mPc = "loop" => mPc' \in {"loop", "returned"}]_vars
    /\ [](mPc \in {"loop", "returned"} => resourceId = IdOfInt(mIter))
    /\ [](mPc = "returned" =>
             /\ gsocAddress = MineAddress(consensusHash, resourceId)
             /\ InProximity(mTarget, gsocAddress, mDepth))
    /\ (mPc = "loop" /\ \E n \in 1..MaxIter : InNeighborhoodOfId(n)) ~> (mPc = "returned")

\* a call returned after the low byte of the counter had wrapped
C15_Witness ==
    /\ mPc = "returned"
    /\ mIter > ByteMax + 1
    /\ resourceId[2] = 1

\* C16: with several subscriptions, a subscription's flag is set and its socket
\* disconnected by its own close handle only, and a subscription whose handle
\* was not invoked has every frame delivered and every transport error reported.
C16_SubscriptionsIndependent ==
    \A s \in Subs :
        /\ closed[s] <=> closeCalls[s] >= 1
        /\ socketCalls[s] = IF closeCalls[s] >= 1 THEN <<"terminate">> ELSE <<>>
        /\ closeCalls[s] = 0 =>
              /\ Len(CallsOf(s, 0)) = errEvents[s]
              /\ \A f \in 1..Len(frames[s]) :
                    fstate[s][f] = "done" => Has(CallsOf(s, f), [f |-> f, cb |-> "onMessage"])

\* subscription 1 is closed and ignored an error; subscription 2, still open,
\* had a frame delivered and an error reported
C16_Witness ==
    /\ closeCalls[1] >= 1
    /\ errEvents[1] = 1
    /\ CallsOf(1, 0) = <<>>
    /\ subState[2] = "open"
    /\ closeCalls[2] = 0
    /\ ~closed[2]
    /\ Has(calls[2], [f |-> 1, cb |-> "onMessage"])
    /\ Has(calls[2], [f |-> 0, cb |-> "onError"])

\* C17: a transport error event after the close handle was invoked invokes
\* nothing; one that occurs before invokes onError exactly once.
C17_ErrorsIgnoredAfterClose ==
    \A s \in Subs :
        /\ closed[s] <=> closeCalls[s] >= 1
        /\ ~Has(afterClose[s], [f |-> 0, cb |-> "onError"])
        /\ Len(CallsOf(s, 0)) = errOpen[s]
        /\ closeCalls[s] = 0 => errOpen[s] = errEvents[s]

\* one error was reported while open, a second one ignored after close
C17_Witness ==
    /\ closeCalls[1] >= 1
    /\ errEvents[1] = 2
    /\ Len(CallsOf(1, 0)) = 1

\* C18: after the close handle was invoked the subscriber's onMessage is not
\* invoked any more.
C18_NoOnMessageAfterClose ==
    \A s \in Subs :
        \A i \in 1..Len(afterClose[s]) : afterClose[s][i].cb # "onMessage"

\* the subscriber callbacks made for frame f
UserCallsOf(s, f) == SelectSeq(CallsOf(s, f), LAMBDA e : e.cb \in {"onMessage", "onError"})

\* C19: a non-empty frame that was handled led to exactly one subscriber
\* callback: onMessage if it parses and passes the validator, onError otherwise.
C19_OneCallbackPerFrame ==
    \A s \in Subs :
        \A f \in 1..Len(frames[s]) :
            (Handled(s, f) /\ frames[s][f].body # "empty") =>
                /\ Len(UserCallsOf(s, f)) = 1
                /\ UserCallsOf(s, f)[1].cb =
                      IF JsonParses(frames[s][f].body)
                         /\ IsInformationSignalRecord(frames[s][f].body)
                      THEN "onMessage" ELSE "onError"

\* what createPostageBatch does while it runs: with waitForUsable it polls once
\* per 3000 step of its loop variable, makes no poll after one that reported
\* the batch usable, does not fail because a poll failed, makes at most 34
\* polls, and returns the batch id of the create response
BatchRunsAsClaimed ==
    /\ bPolls <= 34
    /\ bPollsAfterUsable = 0
    /\ bPc = "threw" => bPolls = 0
    /\ bPc = "polling" => bTime = PollStep * bPolls
    /\ bPc = "waiting" => bTime = PollStep * (bPolls - 1)
    /\ bPc = "returned" =>
          /\ bResult = bBatchId
          /\ bPolls > 0 => bWait
          /\ (bWait /\ ~bUsable) => bPolls = 34

BatchPending == bPc \in {"creating", "polling", "waiting"}
BatchEnded == bPc \in {"returned", "threw"}

\* C20 (as claimed): createPostageBatch always ends, having run as above.
C20_WaitForUsableTerminates ==
    /\ []BatchRunsAsClaimed
    /\ BatchPending ~> BatchEnded

\* the requests settled and timers fired since the create request was answered
BatchSteps ==
    IF bPc = "polling" THEN 2 * bPolls + 1
    ELSE IF bPc = "waiting" THEN 2 * bPolls ELSE 0

\* C20 (amended): createPostageBatch runs as above; every request that settles
\* and every timer that fires either ends the call or brings it one step on, of
\* at most 68 steps (34 polls and 34 waits), and the call ends if every request
\* it awaits settles.
C20_TerminatesIfRequestsSettle ==
    /\ [](BatchRunsAsClaimed /\ BatchSteps <= 2 * 34)
    /\ [][BatchPending =>
             \/ BatchEnded'
             \/ BatchPending' /\ BatchSteps' = BatchSteps + 1]_vars
    /\ (WF_vars(BatchCreateSettles) /\ WF_vars(BatchPollSettles))
           => (BatchPending ~> BatchEnded)

\* the batch never became usable and its id was returned after the last poll
C20_Witness ==
    /\ bPc = "returned"
    /\ bWait
    /\ ~bUsable
    /\ bPolls = 34
    /\ bResult = bBatchId
====
